---- MODULE Spec2Model ----
(***************************************************************************)
(* Strava webhook pipeline of strautomator-web (src/src/routes/api/        *)
(* strava.ts): subscription handshake, public POST event receiver, the     *)
(* internal relay endpoint that dispatches an activity, and the in-memory  *)
(* list of ignored users with its durable copy.                            *)
(*                                                                         *)
(* Every handler runs on Node's single thread: the code between two awaits *)
(* is one atomic step, and each await is a point where other handlers may  *)
(* run.  One action below is one such synchronous stretch together with    *)
(* the external call whose result it resumes on.                           *)
(***************************************************************************)
EXTENDS Integers, Sequences, FiniteSets, TLC

\* ------------------------------------------------------------------ bounds
\* Number of relay requests (accepted activity-create events) in one run.
MaxRelays == 2
\* Number of athlete-records refresh requests in one run.
MaxRefreshes == 2
\* settings.plans.free.maxRecipes, the recipes a free account may hold.
MaxRecipes == 1
\* Number of recipe requests in one run.
MaxRecipeRequests == 2

\* ------------------------------------------------------------- input sets
Users == {"u1", "u2"}
Activities == {77}
\* owner_id absent from the body (obj.owner_id is undefined).
Undefined == "undefined"
\* settings.strava.api.verifyToken
VerifyToken == "SECRET"

\* JavaScript falsy values stand for a missing field: "" for strings, 0 for
\* numbers (the validator tests the fields with "!").
AspectTypes == {"", "create", "update"}
ObjectTypes == {"", "activity", "athlete"}
ObjectIds == {0} \cup Activities
EventTimes == {0, 1}
Authorized == {"", "false", "true"}

\* req.body of a POST: the webhook event as Strava sends it.
Events ==
    [aspect_type : AspectTypes, object_type : ObjectTypes, object_id : ObjectIds,
     event_time : EventTimes, owner_id : Users \cup {Undefined},
     authorized : Authorized]

\* Well-formed events announcing a new activity of a user.
ActivityCreateEvents ==
    {obj \in Events : /\ obj.aspect_type = "create" /\ obj.object_type = "activity"
                      /\ obj.object_id # 0 /\ obj.event_time # 0
                      /\ obj.owner_id # Undefined /\ obj.authorized = ""}

\* Query strings of the handshake; "" stands for an absent parameter.
Tokens == {"", "SECRET", "WRONG"}
Challenges == {"", "abc"}

\* A request at one of the two public endpoints: the handshake (GET, with
\* its query) or an event (POST, with its body).
NoBody ==
    [aspect_type |-> "", object_type |-> "", object_id |-> 0, event_time |-> 0,
     owner_id |-> Undefined, authorized |-> ""]

Requests ==
    [method : {"POST"}, body : Events, verifyToken : {""}, challenge : {""}]
        \cup [method : {"GET"}, body : {NoBody}, verifyToken : Tokens,
              challenge : Challenges]

NoRequest == [method |-> "", body |-> NoBody, verifyToken |-> "", challenge |-> ""]

VARIABLES
    request,        \* the request under study at the public endpoints
    ignoredUsers,   \* the module-level array ignoredUsers (strava.ts:19)
    hydration,      \* progress of the start-up read of the durable record
    appState,       \* durable record "users" of database.appState
    store,          \* user store: per user, existence and activity dates
    queue,          \* deferred queue: set of <<userId, activityId>>
    relays,         \* relay requests, one record per accepted event
    deauthChecked,  \* owners strava.athletes.deauthCheck was called for
    response,       \* the response rendered by the handler that ran last
    clock,          \* the instant dayjs.utc() returns next; 0 is the past
    refresh,        \* runs of GET /:userId/athlete-records/refresh
    account         \* one user's plan and recipes, and the recipe requests

vars ==
    <<request, ignoredUsers, hydration, appState, store, queue, relays, deauthChecked,
      response, clock, refresh, account>>

\* The state of the webhook pipeline.
webhookVars ==
    <<request, ignoredUsers, hydration, appState, store, queue, relays, deauthChecked,
      response, clock>>

Range(s) == {s[i] : i \in 1..Len(s)}

\* ------------------------------------------------------------- responses
\* A JSON body {key: value}, with the optional message next to it.
Json(key, value) == [key |-> key, value |-> value, message |-> ""]
JsonMessage(key, value, message) == [key |-> key, value |-> value, message |-> message]

\* No response rendered yet.
NoResponse == [status |-> 0, body |-> Json("", "")]

\* webserver.renderJson(req, res, data): the JSON body with status 200.
renderJson(data) == [status |-> 200, body |-> data]

\* webserver.renderError(req, res, error, status): the error with that status.
renderError(error, status) == [status |-> status, body |-> Json("error", error)]

\* ------------------------------------------------ subscription handshake
\* GET /webhook/:urlToken.  Express always sets req.params, so the throw of
\* line 386 has no input; getClientIP only reads headers.
\* Mutation: a missing challenge answered as a bad request.
HandshakeResponseBadRequest(verifyToken, challenge) ==
    IF verifyToken # VerifyToken THEN renderError("Invalid token", 401)
    ELSE IF challenge = "" THEN renderError("Missing hub challenge", 400)
    ELSE renderJson(Json("hub.challenge", challenge))

HandshakeResponse(verifyToken, challenge) ==
    IF verifyToken # VerifyToken THEN renderError("Invalid token", 401)
    ELSE IF challenge = "" THEN renderError("Missing hub challenge", 401)
    ELSE renderJson(Json("hub.challenge", challenge))

Handshake(verifyToken, challenge) ==
    /\ response' = HandshakeResponse(verifyToken, challenge)
    /\ UNCHANGED <<ignoredUsers, hydration, appState, store, queue, relays,
                   deauthChecked, clock>>

\* ------------------------------------------------------ webhookValidator
\* Outcome of webhookValidator(req, res): ok is its return value, res the
\* response it rendered (NoResponse when it rendered none) and deauth the
\* owners it called strava.athletes.deauthCheck for.
Validated == [ok |-> TRUE, res |-> NoResponse, deauth |-> {}]
Stopped(res, deauth) == [ok |-> FALSE, res |-> res, deauth |-> deauth]

\* Mutation: the timestamp is not required.
MissingEventDataButTime(obj) ==
    \/ obj.aspect_type = ""
    \/ obj.object_id = 0
    \/ obj.object_type = ""

\* Line 32: any of the four fields falsy.
MissingEventData(obj) ==
    \/ obj.aspect_type = ""
    \/ obj.event_time = 0
    \/ obj.object_id = 0
    \/ obj.object_type = ""

\* Mutation: the flag compared with the wrong literal.
DeauthorizedWhenTrue(obj) ==
    obj.object_type = "athlete" /\ obj.authorized = "true"

\* Line 39: obj.updates && obj.updates.authorized == "false" on an athlete.
Deauthorized(obj) ==
    obj.object_type = "athlete" /\ obj.authorized = "false"

\* Mutation: skipped only when both the aspect and the type are off.
SkippedWhenBothDiffer(obj) ==
    obj.aspect_type # "create" /\ obj.object_type # "activity"

\* Line 47: anything but a new activity.
Skipped(obj) ==
    obj.aspect_type # "create" \/ obj.object_type # "activity"

webhookValidator(method, obj) ==
    IF method # "POST" THEN Validated
    ELSE IF MissingEventData(obj)
        THEN Stopped(renderError("Missing event data", 400), {})
    ELSE IF Deauthorized(obj)
        THEN IF obj.owner_id = Undefined
                \* obj.owner_id.toString() throws; the catch renders {error}.
                THEN Stopped(renderJson(Json("error", "TypeError")), {})
                ELSE Stopped(renderJson(Json("authorized", "false")), {obj.owner_id})
    ELSE IF Skipped(obj)
        THEN Stopped(renderJson(Json("ok", "false")), {})
    ELSE Validated

\* ---------------------------------------------------- ignored-users cache
\* database.appState.get("users").then(...), strava.ts:20: the read of the
\* durable record resolves at some instant after the module was loaded.
HydrationGet ==
    /\ hydration.pc = "get"
    /\ hydration' = [pc |-> "then", data |-> appState]
    /\ UNCHANGED <<ignoredUsers, appState, store, queue, relays, deauthChecked,
                   response, clock>>

\* Mutation: the list read replaces the array instead of being pushed.
HydrationThenAssigns ==
    /\ hydration.pc = "then"
    /\ ignoredUsers' =
           IF hydration.data.present THEN hydration.data.ignored ELSE ignoredUsers
    /\ hydration' = [pc |-> "done", data |-> [present |-> FALSE, ignored |-> <<>>]]
    /\ UNCHANGED <<appState, store, queue, relays, deauthChecked, response, clock>>

\* The callback: data && data.ignored ? ignoredUsers.push.apply(...) : null
HydrationThen ==
    /\ hydration.pc = "then"
    /\ ignoredUsers' =
           IF hydration.data.present THEN ignoredUsers \o hydration.data.ignored
           ELSE ignoredUsers
    /\ hydration' = [pc |-> "done", data |-> [present |-> FALSE, ignored |-> <<>>]]
    /\ UNCHANGED <<appState, store, queue, relays, deauthChecked, response, clock>>

\* ------------------------------------------------------- relay requests
\* The locals of one run of GET /webhook/:urlToken/:userId/:activityId.
\*   pc        "unused"      no request issued for this slot yet
\*             "inflight"    issued by the POST handler, not yet arrived
\*             "lost"        the request failed in transport (line 439)
\*             "appStateSet" awaiting database.appState.set (line 463)
\*             "dispatch"    awaiting queueActivity / processActivity
\*             "update"      awaiting users.update (line 486)
\*             "done"        response rendered
\*   user      the fields of the user object the handler assigns
\*   processed the result of processActivity ("" while there is none)
\*   arg       the value passed to database.appState.set
\*   added     the run pushed its user id to ignoredUsers (line 462)
\*   drain     the queue check this run triggered at line 489: "none",
\*             "running" or "ended"
NoUser == [dateLastActivity |-> 0, dateLastProcessedActivity |-> 0,
           delayedProcessing |-> FALSE]

Relay(pc, userId, activityId) ==
    [pc |-> pc, userId |-> userId, activityId |-> activityId, now |-> 0,
     user |-> NoUser, processed |-> "", arg |-> <<>>,
     added |-> FALSE, drain |-> "none"]

Finished(r) == Relay("done", relays[r].userId, relays[r].activityId)

RelayIds == 1..MaxRelays

FreeSlots == {r \in RelayIds : relays[r].pc = "unused"}

\* ------------------------------------------------- POST /webhook/:urlToken
\* Mutation: the follow-up request is awaited, the acknowledgement is not
\* rendered in the stretch that issues it.
PostAcceptedAwaitingRelay(obj) ==
    /\ FreeSlots # {}
    /\ LET r == CHOOSE x \in FreeSlots : \A y \in FreeSlots : x <= y
       IN relays' = [relays EXCEPT ![r] = Relay("inflight", obj.owner_id, obj.object_id)]
    /\ UNCHANGED <<ignoredUsers, hydration, appState, store, queue,
                   deauthChecked, clock, response>>

\* Lines 429-441: the follow-up request is issued and not awaited, and the
\* acknowledgement is rendered in the same synchronous stretch.
PostAccepted(obj) ==
    /\ FreeSlots # {}
    /\ LET r == CHOOSE x \in FreeSlots : \A y \in FreeSlots : x <= y
       IN relays' = [relays EXCEPT ![r] = Relay("inflight", obj.owner_id, obj.object_id)]
    /\ response' = renderJson(Json("ok", "true"))
    /\ UNCHANGED <<ignoredUsers, hydration, appState, store, queue,
                   deauthChecked, clock>>

\* Mutation: the owner is never found in the list.
includesIgnoredNever(userId) == FALSE

\* Line 424: ignoredUsers.includes(obj.owner_id.toString())
includesIgnored(userId) == userId \in Range(ignoredUsers)

\* Mutation: the exception is answered as a server error.
PostCaughtServerError(ex) == renderError(ex, 500)

\* Lines 442-445: the catch of the POST handler renders {error: ex.toString()}.
PostCaught(ex) == renderJson(Json("error", ex))

\* The whole handler.  req.body is the parsed event (an object), so the
\* throw of line 418 has no input.
PostWebhook(obj) ==
    LET v == webhookValidator("POST", obj) IN
    IF ~v.ok THEN
        /\ response' = v.res
        /\ deauthChecked' = deauthChecked \cup v.deauth
        /\ UNCHANGED <<ignoredUsers, hydration, appState, store, queue, relays, clock>>
    ELSE IF obj.owner_id = Undefined THEN
        \* obj.owner_id.toString() throws at line 424.
        /\ response' = PostCaught("TypeError")
        /\ UNCHANGED <<ignoredUsers, hydration, appState, store, queue, relays,
                       deauthChecked, clock>>
    ELSE IF includesIgnored(obj.owner_id) THEN
        /\ response' = renderJson(Json("ok", "false"))
        /\ UNCHANGED <<ignoredUsers, hydration, appState, store, queue, relays,
                       deauthChecked, clock>>
    ELSE PostAccepted(obj)

\* Mutation: the failure of the follow-up request is rendered.
RelayTransportFailsSurfaced(r) ==
    /\ relays[r].pc = "inflight"
    /\ relays' = [relays EXCEPT ![r].pc = "lost"]
    /\ response' = renderJson(Json("error", "Error"))
    /\ UNCHANGED <<ignoredUsers, hydration, appState, store, queue, deauthChecked,
                   clock>>

\* Line 439: the promise of axios(options) rejects before the request has
\* reached the relay endpoint; the catch callback logs "Callback failed".
RelayTransportFails(r) ==
    /\ relays[r].pc = "inflight"
    /\ relays' = [relays EXCEPT ![r].pc = "lost"]
    /\ UNCHANGED <<ignoredUsers, hydration, appState, store, queue, deauthChecked,
                   response, clock>>

\* ------------------------- GET /webhook/:urlToken/:userId/:activityId
\* Mutation: the id goes to the durable record only, not to the array.
RelayUserNotFoundUnregistered(r) ==
    /\ ignoredUsers' = ignoredUsers
    /\ relays' = [relays EXCEPT ![r].pc = "appStateSet", ![r].now = clock,
                                ![r].arg = Append(ignoredUsers, relays[r].userId),
                                ![r].added = TRUE]
    /\ clock' = clock + 1
    /\ UNCHANGED <<hydration, appState, store, queue, deauthChecked, response>>

\* Lines 461-465, up to the await of database.appState.set: the id is pushed
\* and the list as it is now is handed to the durable write.
RelayUserNotFound(r) ==
    /\ ignoredUsers' = Append(ignoredUsers, relays[r].userId)
    /\ relays' = [relays EXCEPT ![r].pc = "appStateSet", ![r].now = clock,
                                ![r].arg = ignoredUsers', ![r].added = TRUE]
    /\ clock' = clock + 1
    /\ UNCHANGED <<hydration, appState, store, queue, deauthChecked, response>>

\* Lines 473-480, up to the await of queueActivity / processActivity.
RelayStartDispatch(r, delayedProcessing) ==
    /\ relays' = [relays EXCEPT
           ![r].pc = "dispatch",
           ![r].now = clock,
           ![r].user = [dateLastActivity |-> clock,
                        dateLastProcessedActivity |->
                            store[relays[r].userId].dateLastProcessedActivity,
                        delayedProcessing |-> delayedProcessing]]
    /\ clock' = clock + 1
    /\ UNCHANGED <<ignoredUsers, hydration, appState, store, queue, deauthChecked,
                   response>>

\* Lines 467-470: the handler returns with the response res, nothing else
\* done.
RelayRefused(r, res) ==
    /\ response' = res
    /\ relays' = [relays EXCEPT ![r] = Finished(r)]
    /\ clock' = clock + 1
    /\ UNCHANGED <<ignoredUsers, hydration, appState, store, queue, deauthChecked>>

\* Mutation: suspension is not looked at.
RelayFoundUserSuspensionUnchecked(r, hasTokens, suspended, delayedProcessing) ==
    IF ~hasTokens THEN RelayRefused(r, renderError("User has no access tokens", 400))
    ELSE RelayStartDispatch(r, delayedProcessing)

\* Mutation: the tokens are not looked at.
RelayFoundUserTokensUnchecked(r, hasTokens, suspended, delayedProcessing) ==
    IF suspended THEN RelayRefused(r, renderJson(JsonMessage("ok", "false", "suspended")))
    ELSE RelayStartDispatch(r, delayedProcessing)

\* Lines 466-473: users.getById resolved with a user.  hasTokens is
\* stravaTokens with an accessToken or a refreshToken, suspended is
\* user.suspended, delayedProcessing is user.preferences.delayedProcessing.
RelayFoundUser(r, hasTokens, suspended, delayedProcessing) ==
    IF ~hasTokens THEN RelayRefused(r, renderError("User has no access tokens", 400))
    ELSE IF suspended
        THEN RelayRefused(r, renderJson(JsonMessage("ok", "false", "suspended")))
    ELSE RelayStartDispatch(r, delayedProcessing)

\* Lines 453-471: the request arrives, now is taken and users.getById
\* resolves.  Requests arrive at distinct instants, so taking now advances
\* the clock (ms resolution against the latency of an HTTP call).  Tokens,
\* suspension and preferences of the record are owned by other routes and by
\* the core library, so each read may find any of them.
RelayGetUser(r) ==
    /\ relays[r].pc = "inflight"
    /\ webhookValidator("GET", <<>>).ok
    /\ IF ~store[relays[r].userId].exists THEN RelayUserNotFound(r)
       ELSE \E hasTokens, suspended, delayedProcessing \in BOOLEAN :
            RelayFoundUser(r, hasTokens, suspended, delayedProcessing)

\* Line 463 resolves: the durable record is replaced, then line 465.  The
\* array is passed by reference and the library serializes it at some
\* instant between the call and the write: the record holds the list as it
\* was at the call or as it is now.
RelayAppStateSet(r) ==
    /\ relays[r].pc = "appStateSet"
    /\ \E ignored \in {relays[r].arg, ignoredUsers} :
        appState' = [present |-> TRUE, ignored |-> ignored]
    /\ response' = renderError("User not found", 404)
    /\ relays' = [relays EXCEPT ![r] = [Finished(r) EXCEPT !.added = TRUE]]
    /\ UNCHANGED <<ignoredUsers, hydration, store, queue, deauthChecked, clock>>

\* Mutation: the catch goes on to the queue check.
RelayCatchTriggersDrain(r) ==
    /\ response' = renderJson(Json("error", "Error"))
    /\ relays' = [relays EXCEPT ![r] = [Finished(r) EXCEPT !.drain = "running"]]
    /\ UNCHANGED <<ignoredUsers, hydration, appState, store, queue, deauthChecked, clock>>

\* The catch of lines 492-495: an awaited call threw.
RelayCatch(r) ==
    /\ response' = renderJson(Json("error", "Error"))
    /\ relays' = [relays EXCEPT ![r] = Finished(r)]
    /\ UNCHANGED <<ignoredUsers, hydration, appState, store, queue, deauthChecked, clock>>

\* Lines 476-478: strava.activities.queueActivity resolved.
RelayQueued(r) ==
    /\ queue' = queue \cup {<<relays[r].userId, relays[r].activityId>>}
    /\ relays' = [relays EXCEPT ![r].pc = "update",
                                ![r].user.dateLastProcessedActivity = relays[r].now]
    /\ UNCHANGED <<ignoredUsers, hydration, appState, store, deauthChecked,
                   response, clock>>

\* Mutation: the success marker is not advanced.
RelayProcessedUnmarked(r, processed) ==
    /\ relays' = [relays EXCEPT ![r].pc = "update", ![r].processed = processed]
    /\ UNCHANGED <<ignoredUsers, hydration, appState, store, queue, deauthChecked,
                   response, clock>>

\* Lines 480-481: strava.activities.processActivity resolved with processed,
\* one of "ok" (a result without error), "error" (a result with an error
\* field) and "null" (no result).
RelayProcessed(r, processed) ==
    /\ relays' = [relays EXCEPT
           ![r].pc = "update",
           ![r].processed = processed,
           ![r].user.dateLastProcessedActivity =
               IF processed = "ok" THEN relays[r].now
               ELSE relays[r].user.dateLastProcessedActivity]
    /\ UNCHANGED <<ignoredUsers, hydration, appState, store, queue, deauthChecked,
                   response, clock>>

\* Mutation: one processor or enqueue call at a time, the others wait.
RelayDispatchSerialized(r) ==
    /\ relays[r].pc = "dispatch"
    /\ \A q \in RelayIds \ {r} : relays[q].pc # "dispatch"
    /\ IF relays[r].user.delayedProcessing
       THEN RelayQueued(r) \/ RelayCatch(r)
       ELSE \/ \E processed \in {"ok", "error", "null"} : RelayProcessed(r, processed)
            \/ RelayCatch(r)

\* Lines 475-482: the awaited queueActivity or processActivity settles.
RelayDispatch(r) ==
    /\ relays[r].pc = "dispatch"
    /\ IF relays[r].user.delayedProcessing
       THEN RelayQueued(r) \/ RelayCatch(r)
       ELSE \/ \E processed \in {"ok", "error", "null"} : RelayProcessed(r, processed)
            \/ RelayCatch(r)

\* Line 485: the object handed to users.update.
updatedUser(r) ==
    [id |-> relays[r].userId,
     dateLastActivity |-> relays[r].user.dateLastActivity,
     dateLastProcessedActivity |-> relays[r].user.dateLastProcessedActivity]

\* Mutation: the queue check is not triggered.
RelayUpdateWithoutDrain(r) ==
    /\ relays[r].pc = "update"
    /\ store' = [store EXCEPT
           ![updatedUser(r).id].dateLastActivity = updatedUser(r).dateLastActivity,
           ![updatedUser(r).id].dateLastProcessedActivity =
               updatedUser(r).dateLastProcessedActivity]
    /\ response' = renderJson(Json("ok", "true"))
    /\ relays' = [relays EXCEPT ![r] = Finished(r)]
    /\ UNCHANGED <<ignoredUsers, hydration, appState, queue, deauthChecked, clock>>

\* Lines 486-491: users.update resolved (the fields given are merged into
\* the stored record), the queue check is triggered without await and
\* {ok: true} rendered.
RelayUpdate(r) ==
    /\ relays[r].pc = "update"
    /\ store' = [store EXCEPT
           ![updatedUser(r).id].dateLastActivity = updatedUser(r).dateLastActivity,
           ![updatedUser(r).id].dateLastProcessedActivity =
               updatedUser(r).dateLastProcessedActivity]
    /\ response' = renderJson(Json("ok", "true"))
    /\ relays' = [relays EXCEPT ![r] = [Finished(r) EXCEPT !.drain = "running"]]
    /\ UNCHANGED <<ignoredUsers, hydration, appState, queue, deauthChecked, clock>>

\* Line 489: the promise of strava.activities.checkQueuedActivities()
\* settles.  What the check did to the queue is the library's business:
\* it may have processed and removed any of the entries.
CheckQueuedActivitiesSettles(r) ==
    /\ relays[r].drain = "running"
    /\ relays' = [relays EXCEPT ![r].drain = "ended"]
    /\ queue' \in SUBSET queue
    /\ UNCHANGED <<ignoredUsers, hydration, appState, store, deauthChecked,
                   response, clock>>

\* ----------------------------------------------------- user accounts
\* DELETE /:userId of routes/api/users.ts (lines 67-81): users.delete
\* resolved and {deleted: true} is rendered.
UserDeleted(u) ==
    /\ store[u].exists
    /\ store' = [store EXCEPT ![u] = [exists |-> FALSE, dateLastActivity |-> 0,
                                     dateLastProcessedActivity |-> 0]]
    /\ response' = renderJson(Json("deleted", "true"))
    /\ UNCHANGED <<ignoredUsers, hydration, appState, queue, relays, deauthChecked,
                   clock>>

\* An athlete signs up (again): a fresh record is created in the user store.
UserCreated(u) ==
    /\ ~store[u].exists
    /\ store' = [store EXCEPT ![u].exists = TRUE]
    /\ UNCHANGED <<ignoredUsers, hydration, appState, queue, relays, deauthChecked,
                   response, clock>>

\* --------------------------- GET /:userId/athlete-records/refresh
\* One run of the handler (strava.ts:223-250):
\*   pc        "unused", or the call the run is awaiting: "requestValidator",
\*             "getAthleteRecords", "prepareAthleteRecords", "getActivities",
\*             "checkActivityRecords", or "done"
\*   rendered  the bodies passed to webserver.renderJson / renderError for
\*             this request, in order
\*   prepared  strava.athletes.prepareAthleteRecords was called
\*   checked   strava.athletes.checkActivityRecords was called
RefreshIds == 1..MaxRefreshes

NoRefresh == [pc |-> "unused", rendered |-> <<>>, prepared |-> FALSE, checked |-> FALSE]

\* The request arrives and auth.requestValidator is awaited.
RefreshArrives(k) ==
    /\ refresh[k].pc = "unused"
    /\ refresh' = [refresh EXCEPT ![k].pc = "requestValidator"]
    /\ UNCHANGED <<webhookVars, account>>

\* Lines 225-228: the validator resolved, with the user or with nothing
\* (it has rendered the refusal itself); getAthleteRecords is awaited.
RefreshValidated(k) ==
    /\ refresh[k].pc = "requestValidator"
    /\ \E user \in BOOLEAN :
        refresh' = IF user THEN [refresh EXCEPT ![k].pc = "getAthleteRecords"]
                   ELSE [refresh EXCEPT ![k].pc = "done",
                                        ![k].rendered = <<"unauthorized">>]
    /\ UNCHANGED <<webhookVars, account>>

\* Lines 228-236: getAthleteRecords resolved.  With existing records
\* {recentlyRefreshed: true} is rendered; there is no return, so in either
\* case prepareAthleteRecords is called and awaited.
RefreshGotRecords(k) ==
    /\ refresh[k].pc = "getAthleteRecords"
    /\ \E existing \in BOOLEAN :
        refresh' = [refresh EXCEPT
            ![k].pc = "prepareAthleteRecords",
            ![k].rendered = IF existing THEN Append(@, "recentlyRefreshed") ELSE @,
            ![k].prepared = TRUE]
    /\ UNCHANGED <<webhookVars, account>>

\* Lines 236-242: prepareAthleteRecords resolved; getActivities is awaited.
RefreshPrepared(k) ==
    /\ refresh[k].pc = "prepareAthleteRecords"
    /\ refresh' = [refresh EXCEPT ![k].pc = "getActivities"]
    /\ UNCHANGED <<webhookVars, account>>

\* Lines 242-243: getActivities resolved; checkActivityRecords is called.
RefreshGotActivities(k) ==
    /\ refresh[k].pc = "getActivities"
    /\ refresh' = [refresh EXCEPT ![k].pc = "checkActivityRecords",
                                  ![k].checked = TRUE]
    /\ UNCHANGED <<webhookVars, account>>

\* Lines 243-245: checkActivityRecords resolved; the records are rendered.
RefreshChecked(k) ==
    /\ refresh[k].pc = "checkActivityRecords"
    /\ refresh' = [refresh EXCEPT ![k].pc = "done",
                                  ![k].rendered = Append(@, "records")]
    /\ UNCHANGED <<webhookVars, account>>

\* Lines 246-249: an awaited call threw; the catch renders the error, 500.
RefreshCatch(k) ==
    /\ refresh[k].pc \in {"requestValidator", "getAthleteRecords",
                          "prepareAthleteRecords", "getActivities",
                          "checkActivityRecords"}
    /\ refresh' = [refresh EXCEPT ![k].pc = "done",
                                  ![k].rendered = Append(@, "error")]
    /\ UNCHANGED <<webhookVars, account>>

\* ------------------------------- routeUserRecipe (routes/api/users.ts)
\* user.recipes is a map from recipe id to recipe (users.ts:200, 218, 229):
\* the model keeps its set of keys.  The id of a new recipe is "r" and the
\* second it was created in.
RecipeIds == 1..(MaxRecipes + 1)
\* No recipe id in the request (recipe.id is undefined).
NoRecipeId == 0
RecipeRequestIds == 1..MaxRecipeRequests

\* One run of routeUserRecipe:
\*   pc       "unused", or the call the run is awaiting: "requestValidator",
\*            "getById", "update", or "done"
\*   method   req.method
\*   id       recipe.id of the body, or req.params.recipeId of a DELETE
\*   recipes  the keys of user.recipes of the user object the run holds
\*   status   the status of the response (0 while there is none)
NoRun == [pc |-> "unused", method |-> "", id |-> NoRecipeId, recipes |-> {}, status |-> 0]

\* The user of the recipe requests and the runs of the handler.
IdleAccount(isPro) ==
    [isPro |-> isPro, recipes |-> {}, runs |-> [k \in RecipeRequestIds |-> NoRun]]

EndOfRun(k, status) ==
    account' = [account EXCEPT !.runs[k].pc = "done", !.runs[k].status = status]

\* user.recipes.length (line 191): a map has no length property.
lengthOf(recipes) == Undefined

\* x >= n of JavaScript: undefined converts to NaN, and NaN >= n is false.
GreaterOrEqual(x, n) == IF x = Undefined THEN FALSE ELSE x >= n

\* Line 191: !user.isPro && user.recipes.length >= settings.plans.free.maxRecipes
FreeLimitReached(isPro, recipes) ==
    ~isPro /\ GreaterOrEqual(lengthOf(recipes), MaxRecipes)

\* POST /:userId/recipes (a new recipe, or an update when the body has an
\* id) or DELETE /:userId/recipes/:recipeId arrives.
RecipeArrives(k) ==
    /\ account.runs[k].pc = "unused"
    /\ \E method \in {"POST", "DELETE"}, id \in RecipeIds \cup {NoRecipeId} :
        /\ method = "DELETE" => id # NoRecipeId
        /\ account' = [account EXCEPT !.runs[k].pc = "requestValidator",
                                      !.runs[k].method = method,
                                      !.runs[k].id = id]
    /\ UNCHANGED <<webhookVars, refresh>>

\* Lines 163-179: the validator resolved; it refused the request, or
\* recipes.validate threw on the body (400), or users.getById is awaited.
RecipeValidated(k) ==
    /\ account.runs[k].pc = "requestValidator"
    /\ \E validated, wellFormed \in BOOLEAN :
        IF ~validated THEN EndOfRun(k, 401)
        ELSE IF account.runs[k].method # "DELETE" /\ ~wellFormed THEN EndOfRun(k, 400)
        ELSE account' = [account EXCEPT !.runs[k].pc = "getById"]
    /\ UNCHANGED <<webhookVars, refresh>>

\* Lines 179-230: users.getById resolved with the user; the recipe is added
\* to, replaced in or deleted from the user object and users.update is
\* awaited, or the run ends with an error.
RecipeGotUser(k) ==
    /\ account.runs[k].pc = "getById"
    /\ LET run == account.runs[k] IN
       IF run.id = NoRecipeId /\ run.method = "POST" THEN
            IF FreeLimitReached(account.isPro, account.recipes)
            THEN EndOfRun(k, 500)
            ELSE \E id \in RecipeIds :
                    account' = [account EXCEPT
                        !.runs[k].pc = "update",
                        !.runs[k].recipes = account.recipes \cup {id}]
       ELSE IF run.id \notin account.recipes THEN EndOfRun(k, 404)
       ELSE account' = [account EXCEPT
                !.runs[k].pc = "update",
                !.runs[k].recipes = IF run.method = "DELETE"
                                    THEN account.recipes \ {run.id}
                                    ELSE account.recipes]
    /\ UNCHANGED <<webhookVars, refresh>>

\* Lines 230-231: users.update(user, true) resolved: the stored user is
\* replaced by the user object of the run; the recipe is rendered.
RecipeUpdated(k) ==
    /\ account.runs[k].pc = "update"
    /\ account' = [account EXCEPT !.recipes = account.runs[k].recipes,
                                  !.runs[k].pc = "done",
                                  !.runs[k].status = 200]
    /\ UNCHANGED <<webhookVars, refresh>>

\* Lines 232-235: an awaited call threw; the catch renders the error, 500.
RecipeCatch(k) ==
    /\ account.runs[k].pc \in {"requestValidator", "getById", "update"}
    /\ EndOfRun(k, 500)
    /\ UNCHANGED <<webhookVars, refresh>>

\* ------------------------------------------------------------ behaviours
\* The durable record and the user store outlive the process.  The record
\* is never pruned while an athlete may sign up again, so an id in the
\* record says nothing of whether that user exists now.
InitAppStates ==
    {[present |-> FALSE, ignored |-> <<>>]}
        \cup {[present |-> TRUE, ignored |-> <<u>>] : u \in Users}

\* The users that have an account when the process starts.
InitUsers == {"u1"}

InitState ==
    /\ ignoredUsers = <<>>
    /\ hydration = [pc |-> "get", data |-> [present |-> FALSE, ignored |-> <<>>]]
    /\ appState \in InitAppStates
    /\ store = [u \in Users |-> [exists |-> u \in InitUsers, dateLastActivity |-> 0,
                                  dateLastProcessedActivity |-> 0]]
    /\ queue = {}
    /\ relays = [r \in RelayIds |-> Relay("unused", "", 0)]
    /\ deauthChecked = {}
    /\ response = NoResponse
    /\ clock = 1

\* No request at the other routes.
InitRoutes ==
    /\ refresh = [k \in RefreshIds |-> NoRefresh]
    /\ account = IdleAccount(FALSE)

Init == request = NoRequest /\ InitState /\ InitRoutes

\* The pipeline: activity-create events from the receiver through the relay
\* endpoint to the queue and the user store.
Next ==
    \/ HydrationGet /\ UNCHANGED <<request, refresh, account>>
    \/ HydrationThen /\ UNCHANGED <<request, refresh, account>>
    \/ \E obj \in ActivityCreateEvents : PostWebhook(obj) /\ UNCHANGED <<request, refresh, account>>
    \/ \E r \in RelayIds : RelayTransportFails(r) /\ UNCHANGED <<request, refresh, account>>
    \/ \E r \in RelayIds : RelayGetUser(r) /\ UNCHANGED <<request, refresh, account>>
    \/ \E r \in RelayIds : RelayAppStateSet(r) /\ UNCHANGED <<request, refresh, account>>
    \/ \E r \in RelayIds : RelayDispatch(r) /\ UNCHANGED <<request, refresh, account>>
    \/ \E r \in RelayIds : RelayUpdate(r) /\ UNCHANGED <<request, refresh, account>>
    \/ \E r \in RelayIds : CheckQueuedActivitiesSettles(r) /\ UNCHANGED <<request, refresh, account>>

Spec == Init /\ [][Next]_vars

\* The two public endpoints as functions of the request and of the list of
\* ignored users: any one request (the sender may redeliver it) served at
\* any point of the hydration.  The relay request an event issues stays in
\* flight.
InitReceiver == request \in Requests /\ InitState /\ InitRoutes

ServeHandshake ==
    /\ request.method = "GET"
    /\ Handshake(request.verifyToken, request.challenge)
    /\ UNCHANGED <<request, refresh, account>>

ServeEvent ==
    /\ request.method = "POST"
    /\ PostWebhook(request.body)
    /\ UNCHANGED <<request, refresh, account>>

NextReceiver ==
    \/ HydrationGet /\ UNCHANGED <<request, refresh, account>>
    \/ HydrationThen /\ UNCHANGED <<request, refresh, account>>
    \/ ServeHandshake
    \/ ServeEvent

SpecReceiver == InitReceiver /\ [][NextReceiver]_vars

\* The list of ignored users over the life of the accounts: the receiver,
\* the hydration and the relay endpoint up to the point where it has found
\* its user or recorded that there is none (what it does with a user it
\* found is the subject of Spec), together with users deleting their
\* account and athletes signing up.
NextRegistry ==
    \/ HydrationGet /\ UNCHANGED <<request, refresh, account>>
    \/ HydrationThen /\ UNCHANGED <<request, refresh, account>>
    \/ \E obj \in ActivityCreateEvents : PostWebhook(obj) /\ UNCHANGED <<request, refresh, account>>
    \/ \E r \in RelayIds : RelayGetUser(r) /\ UNCHANGED <<request, refresh, account>>
    \/ \E r \in RelayIds : RelayAppStateSet(r) /\ UNCHANGED <<request, refresh, account>>
    \/ \E u \in Users : UserDeleted(u) /\ UNCHANGED <<request, refresh, account>>
    \/ \E u \in Users : UserCreated(u) /\ UNCHANGED <<request, refresh, account>>

SpecRegistry == Init /\ [][NextRegistry]_vars

\* The athlete-records refresh route, any number of requests overlapping.
NextRefresh ==
    \/ \E k \in RefreshIds : RefreshArrives(k)
    \/ \E k \in RefreshIds : RefreshValidated(k)
    \/ \E k \in RefreshIds : RefreshGotRecords(k)
    \/ \E k \in RefreshIds : RefreshPrepared(k)
    \/ \E k \in RefreshIds : RefreshGotActivities(k)
    \/ \E k \in RefreshIds : RefreshChecked(k)
    \/ \E k \in RefreshIds : RefreshCatch(k)

SpecRefresh == Init /\ [][NextRefresh]_vars

\* The recipe routes of one user, free or PRO.
InitRecipes ==
    /\ request = NoRequest /\ InitState
    /\ refresh = [k \in RefreshIds |-> NoRefresh]
    /\ account \in {IdleAccount(isPro) : isPro \in BOOLEAN}

NextRecipes ==
    \/ \E k \in RecipeRequestIds : RecipeArrives(k)
    \/ \E k \in RecipeRequestIds : RecipeValidated(k)
    \/ \E k \in RecipeRequestIds : RecipeGotUser(k)
    \/ \E k \in RecipeRequestIds : RecipeUpdated(k)
    \/ \E k \in RecipeRequestIds : RecipeCatch(k)

SpecRecipes == InitRecipes /\ [][NextRecipes]_vars

\* ================================================================ claims
\* Vocabulary of the claims, stated without the definitions of the model.
InRegistry(u) == \E i \in 1..Len(ignoredUsers) : ignoredUsers[i] = u
OkTrue == [status |-> 200, body |-> [key |-> "ok", value |-> "true", message |-> ""]]
OkFalse == [status |-> 200, body |-> [key |-> "ok", value |-> "false", message |-> ""]]
AuthorizedFalse ==
    [status |-> 200, body |-> [key |-> "authorized", value |-> "false", message |-> ""]]
\* The relay requests issued so far for user u.
IssuedFor(u) == {r \in RelayIds : relays[r].pc # "unused" /\ relays[r].userId = u}
\* Relay request r makes the step from pc value from to pc value to.
Moves(r, from, to) == relays[r].pc = from /\ relays'[r].pc = to
\* The event carries the four required fields.
WellFormed(obj) ==
    /\ obj.aspect_type # "" /\ obj.object_id # 0
    /\ obj.object_type # "" /\ obj.event_time # 0
IsDeauthorization(obj) == obj.object_type = "athlete" /\ obj.authorized = "false"
IsActivityCreate(obj) == obj.aspect_type = "create" /\ obj.object_type = "activity"

\* C1: whenever the receiver issues the relay request of an event, the same
\* synchronous step renders {ok: true}, while that request is only in
\* flight: the acknowledgement does not depend on any progress of the relay.
C1_AckNotAwaitingRelay ==
    [][\A r \in RelayIds : Moves(r, "unused", "inflight") => response' = OkTrue]_vars

\* C1 witness: the acknowledgement is out while a relay request is pending.
C1_Witness ==
    response = OkTrue /\ \E r \in RelayIds : relays[r].pc = "inflight"

\* C2 as stated: a relay request for a user that is in the registry when
\* the request arrives never gets to the enqueue or the processor call.
C2_IgnoredNeverDispatched ==
    [][\A r \in RelayIds :
        (InRegistry(relays[r].userId) /\ relays[r].pc = "inflight")
            => relays'[r].pc # "dispatch"]_vars

\* What the receiver alone does guarantee: once u is in the registry, no
\* relay request is issued for u any more.
IgnoredNeverRelayed ==
    [][\A u \in Users : InRegistry(u) => IssuedFor(u)' \subseteq IssuedFor(u)]_vars

\* C3 as stated: when the deferred branch resumes from the enqueue, the
\* pair is in the queue, the record to persist carries dateLastActivity =
\* now, and its dateLastProcessedActivity is the value read from the store.
C3_DeferredKeepsLastProcessed ==
    [][\A r \in RelayIds :
        (Moves(r, "dispatch", "update") /\ relays[r].user.delayedProcessing) =>
            /\ <<relays[r].userId, relays[r].activityId>> \in queue'
            /\ relays'[r].user.dateLastActivity = relays[r].now
            /\ relays'[r].user.dateLastProcessedActivity
                   = relays[r].user.dateLastProcessedActivity]_vars

C5_ImmediateFailureSurfaced ==
    [][\A r \in RelayIds :
        (Moves(r, "update", "done") /\ ~relays[r].user.delayedProcessing
            /\ relays[r].processed = "error") =>
            /\ store'[relays[r].userId].dateLastActivity = relays[r].now
            /\ store'[relays[r].userId].dateLastProcessedActivity
                   = relays[r].user.dateLastProcessedActivity
            /\ response' # OkTrue]_vars

\* C6 as stated: the persisted dateLastProcessedActivity of a user never
\* moves back.
C6_LastProcessedMonotonic ==
    [][\A u \in Users :
        store'[u].dateLastProcessedActivity >= store[u].dateLastProcessedActivity]_vars

\* The event the receiver serves in this step, when it serves one.
Serves(obj) == request.method = "POST" /\ request.body = obj /\ ServeEvent

C8_Handshake ==
    [][ServeHandshake =>
        IF request.verifyToken # "SECRET" \/ request.challenge = ""
        THEN response'.status = 401
        ELSE response' = [status |-> 200,
                          body |-> [key |-> "hub.challenge",
                                    value |-> request.challenge,
                                    message |-> ""]]]_vars

\* C8 witness: the challenge of a request with the right token was echoed.
C8_Witness ==
    /\ request.method = "GET" /\ request.verifyToken = "SECRET"
    /\ response = [status |-> 200,
                   body |-> [key |-> "hub.challenge", value |-> "abc", message |-> ""]]

\* C9: an event lacking one of the four required fields is answered 400 and
\* changes nothing else: no relay request, no hook call, no registry change,
\* nothing queued or written to the store.
C9_MalformedRejected ==
    [][(~WellFormed(request.body) /\ Serves(request.body)) =>
        /\ response'.status = 400
        /\ UNCHANGED <<relays, deauthChecked, ignoredUsers, appState, queue, store>>]_vars

\* C9 witness: an event without its timestamp was rejected with 400.
C9_Witness ==
    /\ request.method = "POST" /\ request.body.event_time = 0
    /\ request.body.aspect_type = "create" /\ request.body.object_type = "activity"
    /\ request.body.object_id # 0
    /\ response.status = 400

\* C10: a well-formed event that is neither a deauthorization nor a new
\* activity is answered {ok: false} with status 200 and issues no relay
\* request, queues nothing and writes nothing.
C10_IgnorableAcknowledged ==
    [][(WellFormed(request.body) /\ ~IsDeauthorization(request.body)
            /\ ~IsActivityCreate(request.body) /\ Serves(request.body)) =>
        /\ response' = OkFalse
        /\ UNCHANGED <<relays, queue, store>>]_vars

\* C10 witness: an update of an activity was answered {ok: false}.
C10_Witness ==
    /\ request.method = "POST" /\ WellFormed(request.body)
    /\ request.body.aspect_type = "update" /\ request.body.object_type = "activity"
    /\ response = OkFalse

\* Outcomes of the relay endpoint.
SuspendedOutcome ==
    [status |-> 200, body |-> [key |-> "ok", value |-> "false", message |-> "suspended"]]
UserNotFound ==
    [status |-> 404, body |-> [key |-> "error", value |-> "User not found", message |-> ""]]
NoAccessTokens ==
    [status |-> 400,
     body |-> [key |-> "error", value |-> "User has no access tokens", message |-> ""]]
\* Relay request r has arrived for a user that has an account.
ArrivesForUser(r) == relays[r].pc = "inflight" /\ store[relays[r].userId].exists
\* Relay request r has arrived for a user that has none.
ArrivesForNobody(r) == relays[r].pc = "inflight" /\ ~store[relays[r].userId].exists

\* C11: a relay request that finds its user suspended (the user exists and
\* holds tokens, which are looked at first) ends in that same step with
\* {ok: false} and the suspension message; it never awaits the enqueue or
\* the processor, and the queue and the user store, with both dates of the
\* user, are left as they were.
C11_SuspendedNoOp ==
    [][\A r \in RelayIds : \A delayedProcessing \in BOOLEAN :
        (ArrivesForUser(r) /\ RelayFoundUser(r, TRUE, TRUE, delayedProcessing)) =>
            /\ response' = SuspendedOutcome
            /\ relays'[r].pc = "done"
            /\ queue' = queue
            /\ store' = store]_vars

\* C11 witness: a relay request for an existing user was answered with the
\* suspension outcome; the user's dates are untouched and nothing is queued.
C11_Witness ==
    /\ response = SuspendedOutcome
    /\ queue = {}
    /\ \E r \in RelayIds :
        /\ relays[r].pc = "done"
        /\ store[relays[r].userId].exists
        /\ store[relays[r].userId].dateLastActivity = 0
        /\ store[relays[r].userId].dateLastProcessedActivity = 0

C13_TransportFailureOnlyLogged ==
    [][\A r \in RelayIds :
        /\ Moves(r, "inflight", "lost") =>
               /\ response' = response
               /\ \A q \in RelayIds \ {r} : relays'[q] = relays[q]
               /\ UNCHANGED <<ignoredUsers, appState, store, queue, deauthChecked>>
        /\ relays[r].pc = "lost" => relays'[r] = relays[r]]_vars

\* C13 witness: the acknowledgement of an event stands while its follow-up
\* request has failed and no other request exists.
C13_Witness ==
    /\ response = OkTrue
    /\ \E r \in RelayIds :
        /\ relays[r].pc = "lost"
        /\ \A q \in RelayIds \ {r} : relays[q].pc = "unused"

\* C16: the receiver answers an event with a 4xx status only when the
\* event lacks a required field; every well-formed event, whatever becomes
\* of it (accepted, ignorable, deauthorization, ignored owner, exception in
\* the handler), gets a 2xx status and a body {ok}, {authorized} or {error}.
C16_OnlyMalformedGets4xx ==
    [][Serves(request.body) =>
        /\ response'.status \in 400..499 => ~WellFormed(request.body)
        /\ WellFormed(request.body) =>
               /\ response'.status \in 200..299
               /\ response'.body.key \in {"ok", "authorized", "error"}
               /\ response'.body.key = "authorized" => response'.body.value = "false"]_vars

\* C16 witness: a new-activity event without owner made the handler throw
\* and was answered {error} with status 200.
C16_Witness ==
    /\ request.method = "POST" /\ WellFormed(request.body)
    /\ IsActivityCreate(request.body) /\ request.body.owner_id \notin Users
    /\ response.status = 200 /\ response.body.key = "error"

\* C17: an id that is in the in-memory registry is in it after every step.
C17_RegistryMonotonic ==
    [][\A u \in Users : InRegistry(u) => InRegistry(u)']_vars

\* C17 witness: the registry holds an id read from the durable record and
\* another one added by the relay endpoint.
C17_Witness ==
    /\ hydration.pc = "done"
    /\ \E u, v \in Users :
        /\ u # v /\ InRegistry(u) /\ InRegistry(v)
        /\ \E r \in RelayIds : relays[r].pc = "done" /\ relays[r].userId = v

\* C18 as stated: a relay request that arrives for a user id that is in the
\* registry is answered in that step; it neither adds to the registry nor
\* goes on to the durable write or to the dispatch.
C18_RelayShortCircuitsIgnored ==
    [][\A r \in RelayIds :
        (relays[r].pc = "inflight" /\ InRegistry(relays[r].userId)
            /\ relays'[r].pc \notin {"inflight", "lost"}) =>
            /\ relays'[r].pc = "done"
            /\ ignoredUsers' = ignoredUsers]_vars

\* The relay requests the receiver issues in this step.
IssuedNow == {r \in RelayIds : Moves(r, "unused", "inflight")}
\* The receiver accepts the event: it is a well-formed new activity with an
\* owner that is not in the registry.
Accepts(obj) ==
    /\ WellFormed(obj) /\ IsActivityCreate(obj)
    /\ obj.owner_id \in Users /\ ~InRegistry(obj.owner_id)

\* C19: serving an event it accepts, the receiver issues exactly one relay
\* request, for the owner id and object id of the event; serving any other
\* event it issues none.  No existing relay request is touched.
C19_OneRelayPerAcceptedEvent ==
    [][Serves(request.body) =>
        /\ Accepts(request.body) =>
               /\ Cardinality(IssuedNow) = 1
               /\ \A r \in IssuedNow :
                    /\ relays'[r].userId = request.body.owner_id
                    /\ relays'[r].activityId = request.body.object_id
        /\ ~Accepts(request.body) => IssuedNow = {}
        /\ \A r \in RelayIds \ IssuedNow : relays'[r] = relays[r]]_vars

\* C19 witness: one accepted event, one relay request in flight for it.
C19_Witness ==
    /\ request.method = "POST" /\ Accepts(request.body)
    /\ response = OkTrue
    /\ Cardinality({r \in RelayIds : relays[r].pc # "unused"}) = 1
    /\ \E r \in RelayIds :
        /\ relays[r].pc = "inflight"
        /\ relays[r].userId = request.body.owner_id
        /\ relays[r].activityId = request.body.object_id

\* The body of the response the relay endpoint renders from its catch.
ErrorBody(res) == res.status = 200 /\ res.body.key = "error"

C28_DispatchThrowsNoWrite ==
    [][\A r \in RelayIds :
        /\ Moves(r, "dispatch", "done") =>
               /\ ErrorBody(response')
               /\ store' = store
               /\ relays'[r].drain = "none"
        /\ (relays[r].pc = "done" /\ relays[r].drain = "none") =>
               relays'[r].drain = "none"]_vars

\* C28 witness: a dispatch ended in {error}; its user has both dates as
\* they were and no queue check was started.
C28_Witness ==
    /\ ErrorBody(response)
    /\ \E r \in RelayIds :
        /\ relays[r].pc = "done" /\ relays[r].drain = "none"
        /\ store[relays[r].userId].exists
        /\ store[relays[r].userId].dateLastActivity = 0
        /\ store[relays[r].userId].dateLastProcessedActivity = 0

\* C25: while the processor (or enqueue) call of one relay request has not
\* returned, which may last for ever, nothing else waits for it: a new
\* activity event of any owner that is not ignored can be served and gets
\* its {ok: true}, and every other relay request, for the same or another
\* user, can take its next step, up to and through its own processor call,
\* its write to the user store and its response.
C25_HungCallBlocksOnlyItself ==
    \A r \in RelayIds : relays[r].pc = "dispatch" =>
        /\ \A obj \in ActivityCreateEvents :
            ((\E x \in RelayIds : relays[x].pc = "unused") /\ ~InRegistry(obj.owner_id))
                => ENABLED (PostWebhook(obj) /\ response' = OkTrue)
        /\ \A q \in RelayIds \ {r} :
            /\ relays[q].pc = "inflight" => ENABLED RelayGetUser(q)
            /\ relays[q].pc = "appStateSet" => ENABLED RelayAppStateSet(q)
            /\ relays[q].pc = "dispatch" =>
                   ENABLED (RelayDispatch(q) /\ relays'[q].pc = "update")
            /\ relays[q].pc = "update" =>
                   ENABLED (RelayUpdate(q) /\ response' = OkTrue)

\* C25 witness: one relay request is still waiting for its processor call
\* while another one, which arrived after it, has completed its dispatch
\* and been answered {ok: true}.
C25_Witness ==
    /\ response = OkTrue
    /\ \E r, q \in RelayIds :
        /\ r # q
        /\ relays[r].pc = "dispatch"
        /\ relays[q].pc = "done"
        /\ store[relays[q].userId].dateLastActivity > relays[r].now

\* The id is in the durable record of ignored users.
InRecord(u) == \E i \in 1..Len(appState.ignored) : appState.ignored[i] = u
\* How many times the id is in the durable record.
TimesInRecord(u) ==
    Cardinality({i \in 1..Len(appState.ignored) : appState.ignored[i] = u})

\* C22 as stated: a relay request that adds an id which is in the registry
\* already leaves the registry as it is, and when its durable write has
\* completed the id is in the record once.
C22_AddIdempotent ==
    [][\A r \in RelayIds :
        /\ (InRegistry(relays[r].userId) /\ Moves(r, "inflight", "appStateSet"))
               => ignoredUsers' = ignoredUsers
        /\ Moves(r, "appStateSet", "done") => TimesInRecord(relays[r].userId)' = 1]_vars

\* C23 as stated: once two relay requests have each added their user id,
\* two different ids, and no durable write is pending, both ids are in the
\* in-memory registry and both are in the durable record.
C23_ConcurrentAddsCommute ==
    \A r, q \in RelayIds :
        (/\ relays[r].pc = "done" /\ relays[r].added
         /\ relays[q].pc = "done" /\ relays[q].added
         /\ relays[r].userId # relays[q].userId
         /\ \A x \in RelayIds : relays[x].pc # "appStateSet") =>
            /\ InRegistry(relays[r].userId) /\ InRegistry(relays[q].userId)
            /\ InRecord(relays[r].userId) /\ InRecord(relays[q].userId)

\* The event Strava sends when user u has uploaded activity a.
NewActivityEvent(u, a) ==
    [aspect_type |-> "create", object_type |-> "activity", object_id |-> a,
     event_time |-> 1, owner_id |-> u, authorized |-> ""]

C27_RecordNeverLosesId ==
    [][\A u \in Users : InRecord(u) => InRecord(u)']_vars

\* C29 as stated: a refresh request that was answered {recentlyRefreshed:
\* true} has ended with that one response, and neither
\* prepareAthleteRecords nor checkActivityRecords was called for it.
C29_RecentlyRefreshedStops ==
    \A k \in RefreshIds :
        (Len(refresh[k].rendered) >= 1 /\ refresh[k].rendered[1] = "recentlyRefreshed") =>
            /\ refresh[k].pc = "done"
            /\ Len(refresh[k].rendered) = 1
            /\ ~refresh[k].prepared
            /\ ~refresh[k].checked

\* C30 as stated: a user that is not PRO never holds more recipes than the
\* free plan allows.
C30_FreeRecipesBounded ==
    ~account.isPro => Cardinality(account.recipes) <= MaxRecipes

====
